---- MODULE Spec2Model ----
(***************************************************************************)
(* EvaViTWrapper (llava/model/multimodal_encoder/eva_vit.py): the wrapper  *)
(* around a pretrained EVA vision tower.  The state is the wrapper's       *)
(* attributes; there is one action per public method or property.          *)
(*                                                                         *)
(* Tensors.  An activation [batch, tokens, channels] is modelled by its    *)
(* token axis and its channel axis: a sequence (tokens) of sequences       *)
(* (channels) of entries.  An entry <<l, t, c>> names where it comes from: *)
(* layer (or image) l, token t, channel c, all counted from 0 as Python    *)
(* does.  A stack of activations is a sequence of such tensors.            *)
(***************************************************************************)
EXTENDS Integers, Sequences, FiniteSets, TLC

\* ------------------------------------------------------------------ bounds
MaxLayers == 12      \* longest activation stack handed to feature_select
MaxTokens == 2       \* most tokens of one activation
MaxChannels == 2     \* widest single-layer channel axis
MaxImages == 3       \* longest list of images handed to forward
MaxBack == 3         \* mm_vision_select_layer ranges over -MaxBack .. MaxFront
MaxFront == 1

\* --------------------------------------------------------------- constants
BaseHiddenSize == 1408
BaseNumPatches == 256
DummyWidth == 1408

ModelDType == "bf16"

Enumeration ==
  {"patch", "cls_patch", "slicefour_patch", "slicefour_cls_patch",
   "slice_m25811_f6_patch", "slice_m25811_f6_cls_patch"}

\* Selection-mode strings a configuration may carry: the enumeration and
\* strings outside it.
ModeStrings ==
  Enumeration \cup {"bogus", "slicefour_bogus", "slicefour_slice_m25811_f6_patch"}

\* What create_model_and_transforms does for the configured identifier:
\* it builds the model ("ok"), does not know the identifier (raises at line
\* 47), or hands over transforms without a Resize or Normalize stage (the
\* lookup of line 53 raises, after line 52 has set self.vision_tower).
\* load_model always passes the same vision_tower_name and pretrained, so the
\* answer is fixed for the life of a wrapper.
Libraries == {"ok", "unknown_model", "no_transform"}

VARIABLES
  args,            \* the constructor's args object (self.args)
  library,         \* how the external model library answers for vision_tower_name
  is_loaded,       \* self.is_loaded
  select_layer,    \* self.select_layer
  select_feature,  \* self.select_feature
  training,        \* self.training
  vision_tower,    \* self.vision_tower: [present, training, requires_grad]
  call             \* the call whose result the caller holds: [op, arg, ret, ...]

vars == <<args, library, is_loaded, select_layer, select_feature, training,
          vision_tower, call>>

\* ------------------------------------------------------- Python primitives
\* s.find(sub) from position `from` (1-based); 0 when sub does not occur.
RECURSIVE Find(_, _, _)
Find(s, sub, from) ==
  IF from + Len(sub) - 1 > Len(s) THEN 0
  ELSE IF SubSeq(s, from, from + Len(sub) - 1) = sub THEN from
  ELSE Find(s, sub, from + 1)

\* sub in s
Contains(sub, s) == Find(s, sub, 1) # 0

\* s.replace(old, new): every non-overlapping occurrence, left to right.
RECURSIVE Replace(_, _, _)
Replace(s, old, new) ==
  LET i == Find(s, old, 1)
  IN IF i = 0 THEN s
     ELSE SubSeq(s, 1, i - 1) \o new
            \o Replace(SubSeq(s, i + Len(old), Len(s)), old, new)

\* getattr(obj, name, default)
GetAttr(obj, name, default) ==
  IF name \in DOMAIN obj THEN obj[name] ELSE default

\* range(start, stop, step) for step > 0
RECURSIVE PyRange(_, _, _)
PyRange(start, stop, step) ==
  IF start >= stop THEN <<>>
  ELSE <<start>> \o PyRange(start + step, stop, step)

\* seq[i] with Python's index rule: -len <= i < len, negative from the end.
InRange(i, n) == -n <= i /\ i < n
PyIndex(seq, i) == IF i < 0 THEN seq[Len(seq) + i + 1] ELSE seq[i + 1]

\* ------------------------------------------------------------------ tensors
\* Layer l of a stack whose activations have T tokens and C channels.
Layer(l, T, C) == [t \in 1..T |-> [c \in 1..C |-> <<l, t - 1, c - 1>>]]

Stack(L, T, C) == [i \in 1..L |-> Layer(i - 1, T, C)]

RECURSIVE Flatten(_)
Flatten(rows) ==
  IF rows = <<>> THEN <<>> ELSE Head(rows) \o Flatten(Tail(rows))

\* torch.cat(tensors, dim=-1) of a non-empty list of activations
Cat(tensors) ==
  [t \in 1..Len(tensors[1]) |->
     Flatten([k \in 1..Len(tensors) |-> tensors[k][t]])]

\* A slice at the wrong end: x[:, :-1]
DropLastToken(x) == IF x = <<>> THEN <<>> ELSE SubSeq(x, 1, Len(x) - 1)

\* x[:, 1:]
DropFirstToken(x) == IF x = <<>> THEN <<>> ELSE Tail(x)

\* A stack of four entries instead of one: x.unsqueeze(0).repeat(4, ...)
RepeatFour(x) == <<x, x, x, x>>

\* x.unsqueeze(0)
Unsqueeze0(x) == <<x>>

\* ------------------------------------------------------------- call results
Raise(exc, line) == [exc |-> exc, line |-> line, value |-> <<>>]
Return(value, line) == [exc |-> "none", line |-> line, value |-> value]
Returned(r) == r.exc = "none"

\* ----------------------------------------------------------- feature_select
\* Lines 71-80: the layer selection.  The result carries the selected
\* activation and select_feature_type, or the exception raised on the way.
Selected(value, type) ==
  [exc |-> "none", line |-> 80, value |-> value, type |-> type]
Failed(exc, line) == [exc |-> exc, line |-> line, value |-> <<>>, type |-> ""]

\* [image_features[i] for i in indices] followed by torch.cat(..., dim=-1)
CatLayers(image_features, indices, line, type) ==
  IF \E j \in 1..Len(indices) : ~InRange(indices[j], Len(image_features))
  THEN Failed("IndexError", line)
  ELSE IF indices = <<>> THEN Failed("RuntimeError", line)
  ELSE Selected(Cat([j \in 1..Len(indices) |->
                       PyIndex(image_features, indices[j])]), type)

\* The same five layers in ascending order of position.
select_layers_ascending == <<6, -10, -7, -4, -1>>

select_layers == <<-1, -4, -7, -10, 6>>

SliceFourIndices(n, layer) ==
  LET select_every_k_layer == n \div 4
  IN PyRange(select_every_k_layer + layer, n, select_every_k_layer)

SelectLayers(image_features, feature, layer) ==
  IF feature \in {"slicefour_patch", "slicefour_cls_patch"}
  THEN IF Len(image_features) \div 4 = 0
       THEN Failed("ValueError", 73)      \* range() arg 3 must not be zero
       ELSE CatLayers(image_features,
                      SliceFourIndices(Len(image_features), layer), 73,
                      Replace(feature, "slicefour_", ""))
  ELSE IF feature \in {"slice_m25811_f6_patch", "slice_m25811_f6_cls_patch"}
  THEN CatLayers(image_features, select_layers, 77,
                 Replace(feature, "slice_m25811_f6_", ""))
  ELSE IF InRange(layer, Len(image_features))
       THEN Selected(PyIndex(image_features, layer), feature)
       ELSE Failed("IndexError", 80)

\* A trimming whose last branch passes the activation through.
TrimTokensLenient(sel) ==
  IF sel.type = "patch" THEN Return(DropFirstToken(sel.value), 88)
  ELSE Return(sel.value, 88)

\* Lines 82-88: the token trimming by select_feature_type.
TrimTokens(sel) ==
  IF sel.type = "patch" THEN Return(DropFirstToken(sel.value), 88)
  ELSE IF sel.type = "cls_patch" THEN Return(sel.value, 88)
  ELSE Raise("ValueError", 87)

feature_select(image_features, feature, layer) ==
  LET sel == SelectLayers(image_features, feature, layer)
  IN IF sel.exc # "none" THEN Raise(sel.exc, sel.line) ELSE TrimTokens(sel)

\* --------------------------------------------------------------- properties
\* The first test looking for "slice" alone, which both families contain.
hidden_size_slice_prefix(feature) ==
  LET h0 == BaseHiddenSize
      h1 == IF Contains("slice", feature) THEN h0 * 4 ELSE h0
  IN IF Contains("slice_m25811_f6", feature) THEN h1 * 5 ELSE h1

hidden_size(feature) ==
  LET h0 == BaseHiddenSize
      h1 == IF Contains("slicefour", feature) THEN h0 * 4 ELSE h0
  IN IF Contains("slice_m25811_f6", feature) THEN h1 * 5 ELSE h1

num_patches(feature) ==
  IF Contains("cls_patch", feature) THEN BaseNumPatches + 1 ELSE BaseNumPatches

\* torch.zeros(1, 1408, device=self.device, dtype=self.dtype)
dummy_feature(feature) ==
  [shape |-> <<1, DummyWidth>>, fill |-> 0, dtype |-> ModelDType]

\* -------------------------------------------------------------- constructor
\* The adjustment applied to every negative index.
AdjustSelectLayerNegative(layer) == IF layer < 0 THEN layer + 1 ELSE layer

\* Lines 35-37
AdjustSelectLayer(layer) == IF layer < -1 THEN layer + 1 ELSE layer

\* Line 38
InitSelectFeature(a) == GetAttr(a, "mm_vision_select_feature", "patch")

\* ---------------------------------------------------------------- load_model
NoTower == [present |-> FALSE, training |-> FALSE, requires_grad |-> FALSE]

\* model.visual as create_model_and_transforms hands it over: its mode and
\* its parameters' requires_grad are the library's choice.
FreshTowers == [present : {TRUE}, training : BOOLEAN, requires_grad : BOOLEAN]

\* Lines 63-65
Freeze(tower) == [tower EXCEPT !.requires_grad = FALSE]
Eval(tower) == [tower EXCEPT !.training = FALSE]

\* The wrapper after load_model() with the library handing over `fresh`:
\* [vision_tower, is_loaded, ret].
LoadModel(lib, fresh, tower, loaded) ==
  IF lib = "unknown_model"
  THEN [vision_tower |-> tower, is_loaded |-> loaded,
        ret |-> Raise("RuntimeError", 47)]
  ELSE IF lib = "no_transform"
  THEN [vision_tower |-> fresh, is_loaded |-> loaded,
        ret |-> Raise("IndexError", 53)]
  ELSE [vision_tower |-> Eval(Freeze(fresh)), is_loaded |-> TRUE,
        ret |-> Return("None", 66)]

\* --------------------------------------------------------------------- train
\* nn.Module.train's default: the mode handed down to the tower.
TrainTowerPropagate(tower, loaded, mode) == [tower EXCEPT !.training = mode]

\* Lines 91-94: the tower after train(mode)
TrainTower(tower, loaded, mode) == IF loaded THEN Eval(tower) ELSE tower
TrainFlag(mode) == mode

\* ------------------------------------------------------------------- forward
Images == [tokens : 1..MaxTokens, dtype : {"fp32"}]

\* t.to(dtype)
To(t, dtype) == [t EXCEPT !.dtype = dtype]

\* self.vision_tower(x): one activation, tagged by the image's token count
Encoder(x) ==
  [dtype |-> x.dtype, data |-> Layer(x.tokens, x.tokens, MaxChannels)]

\* Lines 101-102 and 105-106: one image (or one batch) through the tower
\* and the selection: [stack_len, ret].
ForwardOne(image, feature, layer) ==
  LET out == Encoder(To(image, ModelDType))
      image_forward_out == Unsqueeze0(out.data)
      r == feature_select(image_forward_out, feature, layer)
  IN [stack_len |-> Len(image_forward_out),
      ret |-> IF Returned(r)
              THEN Return(To([dtype |-> out.dtype, data |-> r.value],
                             ModelDType), 108)
              ELSE r]

\* The feature put in front of the list.
CollectFront(image_features, image_feature) == <<image_feature>> \o image_features

\* Line 103: image_features.append(image_feature)
Collect(image_features, image_feature) == Append(image_features, image_feature)

\* Lines 99-103: the loop over the list, from image i on, with the features
\* collected so far; stops at the first exception.
RECURSIVE ForwardList(_, _, _, _, _)
ForwardList(images, i, image_features, feature, layer) ==
  IF i > Len(images)
  THEN [calls |-> Len(images), stack_lens |-> {},
        ret |-> Return(image_features, 108)]
  ELSE LET one == ForwardOne(images[i], feature, layer)
       IN IF ~Returned(one.ret)
          THEN [calls |-> i, stack_lens |-> {one.stack_len}, ret |-> one.ret]
          ELSE LET rest == ForwardList(images, i + 1,
                                       Collect(image_features, one.ret.value),
                                       feature, layer)
               IN [rest EXCEPT !.stack_lens = @ \cup {one.stack_len}]

\* forward(images): images is [kind |-> "list", images |-> <<...>>] or
\* [kind |-> "tensor", image |-> x].  Without a tower self.vision_tower and
\* self.dtype do not exist.
forward(images, tower, feature, layer) ==
  IF ~tower.present
  THEN [calls |-> 0, stack_lens |-> {}, ret |-> Raise("AttributeError", 101)]
  ELSE IF images.kind = "list"
  THEN ForwardList(images.images, 1, <<>>, feature, layer)
  ELSE LET one == ForwardOne(images.image, feature, layer)
       IN [calls |-> 1, stack_lens |-> {one.stack_len}, ret |-> one.ret]

\* ---------------------------------------------------------------- the calls
Call(op, arg, ret) ==
  [op |-> op, arg |-> arg, ret |-> ret, calls |-> 0, stack_lens |-> {}]

\* No call is under way: the caller is free to make the next one.
Idle == Call("idle", "None", Return("None", 0))

SelectLayerRange == (0 - MaxBack)..MaxFront

\* The args objects: with and without the attribute mm_vision_select_feature.
ArgsSet ==
  [mm_vision_select_layer : SelectLayerRange,
   mm_vision_select_feature : ModeStrings]
  \cup [mm_vision_select_layer : SelectLayerRange]

\* EvaViTWrapper(vision_tower, args, delay_load): lines 26-41.  A constructor
\* whose load_model() raises builds no wrapper.
Init ==
  \E a \in ArgsSet, delay_load \in BOOLEAN, lib \in Libraries,
     fresh \in FreshTowers :
    LET loaded == LoadModel(lib, fresh, NoTower, FALSE)
    IN /\ delay_load \/ Returned(loaded.ret)
       /\ args = a
       /\ library = lib
       /\ training = TRUE
       /\ select_layer = AdjustSelectLayer(a.mm_vision_select_layer)
       /\ select_feature = InitSelectFeature(a)
       /\ is_loaded = IF delay_load THEN FALSE ELSE loaded.is_loaded
       /\ vision_tower = IF delay_load THEN NoTower ELSE loaded.vision_tower
       /\ call = Call("__init__", delay_load, Return("None", 41))

CallLoadModel ==
  /\ call = Idle
  /\ \E fresh \in FreshTowers :
    LET loaded == LoadModel(library, fresh, vision_tower, is_loaded)
    IN /\ vision_tower' = loaded.vision_tower
       /\ is_loaded' = loaded.is_loaded
       /\ call' = Call("load_model", "None", loaded.ret)
       /\ UNCHANGED <<args, library, select_layer, select_feature, training>>

CallTrain ==
  /\ call = Idle
  /\ \E mode \in BOOLEAN :
    /\ training' = TrainFlag(mode)
    /\ vision_tower' = TrainTower(vision_tower, is_loaded, mode)
    /\ call' = Call("train", mode, Return("None", 94))
    /\ UNCHANGED <<args, library, select_layer, select_feature, is_loaded>>

CallFeatureSelect ==
  /\ call = Idle
  /\ \E L \in 1..MaxLayers, T \in 1..MaxTokens, C \in 1..MaxChannels :
    /\ call' = Call("feature_select", [L |-> L, T |-> T, C |-> C],
                    feature_select(Stack(L, T, C), select_feature, select_layer))
    /\ UNCHANGED <<args, library, select_layer, select_feature, is_loaded,
                   training, vision_tower>>

ImageLists == UNION {[1..n -> Images] : n \in 0..MaxImages}

ForwardInputs ==
  [kind : {"list"}, images : ImageLists] \cup [kind : {"tensor"}, image : Images]

CallForward ==
  /\ call = Idle
  /\ \E images \in ForwardInputs :
    LET f == forward(images, vision_tower, select_feature, select_layer)
    IN /\ call' = [op |-> "forward", arg |-> images, ret |-> f.ret,
                   calls |-> f.calls, stack_lens |-> f.stack_lens]
       /\ UNCHANGED <<args, library, select_layer, select_feature, is_loaded,
                      training, vision_tower>>

\* self.device and self.dtype exist once load_model has passed line 51.
GetDummyFeature ==
  /\ call = Idle
  /\ call' = Call("dummy_feature", "None",
                  IF vision_tower.present
                  THEN Return(dummy_feature(select_feature), 112)
                  ELSE Raise("AttributeError", 112))
  /\ UNCHANGED <<args, library, select_layer, select_feature, is_loaded,
                 training, vision_tower>>

GetHiddenSize ==
  /\ call = Idle
  /\ call' = Call("hidden_size", "None", Return(hidden_size(select_feature), 128))
  /\ UNCHANGED <<args, library, select_layer, select_feature, is_loaded,
                 training, vision_tower>>

GetNumPatches ==
  /\ call = Idle
  /\ call' = Call("num_patches", "None", Return(num_patches(select_feature), 119))
  /\ UNCHANGED <<args, library, select_layer, select_feature, is_loaded,
                 training, vision_tower>>

\* The caller takes the result (or catches the exception) of the call.
Resume ==
  /\ call # Idle
  /\ call' = Idle
  /\ UNCHANGED <<args, library, select_layer, select_feature, is_loaded,
                 training, vision_tower>>

Next ==
  \/ Resume
  \/ CallLoadModel
  \/ CallTrain
  \/ CallFeatureSelect
  \/ CallForward
  \/ GetDummyFeature
  \/ GetHiddenSize
  \/ GetNumPatches

Spec == Init /\ [][Next]_vars

\* ------------------------------------------------------------------- claims
PatchModes == {"patch", "slicefour_patch", "slice_m25811_f6_patch"}
SliceFourModes == {"slicefour_patch", "slicefour_cls_patch"}
M25811Modes == {"slice_m25811_f6_patch", "slice_m25811_f6_cls_patch"}
SingleModes == {"patch", "cls_patch"}

\* The layer an index names in a stack of L layers.
LayerAt(i, L) == IF i < 0 THEN i + L ELSE i

\* Every token row of `out` is the channel-wise concatenation, in order, of
\* the rows of the layers `layers` (each C channels wide).
IsConcatOf(out, layers, C) ==
  \A t \in 1..Len(out) :
    /\ Len(out[t]) = Len(layers) * C
    /\ \A p \in 1..Len(out[t]) :
         /\ out[t][p][1] = layers[1 + ((p - 1) \div C)]
         /\ out[t][p][3] = (p - 1) % C

\* C1: feature_select in a slicefour mode, on a stack of L layers with L
\* divisible by 4, returns for every select_layer the concatenation of exactly
\* the 4 layers at stride+select_layer, 2*stride+select_layer, ... with
\* stride = L div 4, so 4 times the single-layer channel width.
C1_SliceFourSelectsFourLayers ==
  (call.op = "feature_select" /\ select_feature \in SliceFourModes
     /\ call.arg.L % 4 = 0) =>
    LET stride == call.arg.L \div 4
    IN /\ Returned(call.ret)
       /\ IsConcatOf(call.ret.value,
                     [k \in 1..4 |-> LayerAt(k * stride + select_layer, call.arg.L)],
                     call.arg.C)

\* C2: in each of the six modes a returning feature_select trims by the
\* mode's suffix: for patch the output has one token fewer, token 0 gone and
\* tokens 1..T-1 kept in order; for cls_patch the token axis is unchanged.
C2_TokenTrimming ==
  (call.op = "feature_select" /\ select_feature \in Enumeration
     /\ Returned(call.ret)) =>
    LET out == call.ret.value
        drop == IF select_feature \in PatchModes THEN 1 ELSE 0
    IN /\ Len(out) = call.arg.T - drop
       /\ \A t \in 1..Len(out) :
            /\ out[t] # <<>>
            /\ \A p \in 1..Len(out[t]) : out[t][p][2] = (t - 1) + drop

C2_Witness ==
  /\ call.op = "feature_select"
  /\ select_feature = "slice_m25811_f6_patch"
  /\ Returned(call.ret)
  /\ call.arg.T = MaxTokens
  /\ Len(call.ret.value) = MaxTokens - 1

\* C3: feature_select in a slice_m25811_f6 mode returns exactly when the
\* stack holds the five indices (10 layers or more), and then returns the
\* layers at indices -1, -4, -7, -10, 6 concatenated in that order, 5 times
\* the single-layer channel width, whatever select_layer is.
C3_M25811SelectsFiveLayers ==
  (call.op = "feature_select" /\ select_feature \in M25811Modes) =>
    LET L == call.arg.L
    IN /\ Returned(call.ret) <=> L >= 10
       /\ Returned(call.ret) =>
            IsConcatOf(call.ret.value, <<L - 1, L - 4, L - 7, L - 10, 6>>,
                       call.arg.C)

C3_Witness ==
  /\ call.op = "feature_select"
  /\ select_feature = "slice_m25811_f6_cls_patch"
  /\ select_layer = 1
  /\ call.arg = [L |-> 12, T |-> MaxTokens, C |-> MaxChannels]
  /\ Returned(call.ret)
  /\ Len(call.ret.value[1]) = 5 * MaxChannels

\* C4 as stated: for a mode string outside the six literals feature_select
\* ends in the ValueError of line 87.
C4_UnknownModeRaisesValueError ==
  (call.op = "feature_select" /\ select_feature \notin Enumeration) =>
    (call.ret.exc = "ValueError" /\ call.ret.line = 87)

\* C4 (amended): for a mode string outside the six literals feature_select
\* never returns a tensor: it ends in the ValueError of line 87 when
\* select_layer is a valid index into the stack, and in the IndexError of
\* line 80 when it is not.
C4_UnknownModeRaises ==
  (call.op = "feature_select" /\ select_feature \notin Enumeration) =>
    LET valid == (0 - call.arg.L) <= select_layer /\ select_layer < call.arg.L
    IN /\ ~Returned(call.ret)
       /\ valid => (call.ret.exc = "ValueError" /\ call.ret.line = 87)
       /\ ~valid => (call.ret.exc = "IndexError" /\ call.ret.line = 80)

C4_Witness ==
  /\ call.op = "feature_select"
  /\ select_feature = "bogus"
  /\ call.ret.exc = "ValueError"
  /\ call.ret.line = 87

\* The feature forward yields for one image in a single-layer mode: the
\* encoder's activation for that image, in the model's precision, less token
\* 0 in mode patch.
ExpectedFeature(image, feature) ==
  LET drop == IF feature \in PatchModes THEN 1 ELSE 0
  IN [dtype |-> ModelDType,
      data |-> [t \in 1..(image.tokens - drop) |->
                  [c \in 1..MaxChannels |-> <<image.tokens, (t - 1) + drop, c - 1>>]]]

\* C5: a forward on a list of n images that returns, returns n features, the
\* i-th being the selection of the encoder's output for the i-th image, after
\* n encoder calls; a forward on one batched tensor calls the encoder once
\* and, when it returns, returns that one selection.
C5_ForwardPreservesArityAndOrder ==
  (call.op = "forward" /\ vision_tower.present) =>
    /\ (call.arg.kind = "list" /\ Returned(call.ret)) =>
         /\ Len(call.ret.value) = Len(call.arg.images)
         /\ call.calls = Len(call.arg.images)
         /\ \A i \in 1..Len(call.arg.images) :
              call.ret.value[i] = ExpectedFeature(call.arg.images[i], select_feature)
    /\ call.arg.kind = "tensor" =>
         /\ call.calls = 1
         /\ Returned(call.ret) =>
              call.ret.value = ExpectedFeature(call.arg.image, select_feature)

C5_Witness ==
  /\ call.op = "forward"
  /\ call.arg.kind = "list"
  /\ Returned(call.ret)
  /\ Len(call.arg.images) = MaxImages
  /\ call.arg.images[1] # call.arg.images[2]
  /\ Len(call.ret.value) = MaxImages

\* C6: whenever is_loaded holds the tower is in eval mode with every
\* parameter's requires_grad off; train(mode) sets only the training flag,
\* forcing eval on the tower when loaded and leaving it alone when not;
\* is_loaded never goes back to false; a load_model() on a loaded wrapper
\* leaves it loaded, frozen and in eval mode.
C6_EncoderStaysFrozen ==
  /\ [](is_loaded => (vision_tower.present /\ ~vision_tower.training
                        /\ ~vision_tower.requires_grad))
  /\ [][is_loaded => is_loaded']_vars
  /\ [][call'.op = "train" =>
          /\ training' = call'.arg
          /\ is_loaded' = is_loaded
          /\ vision_tower' = IF is_loaded
                             THEN [vision_tower EXCEPT !.training = FALSE]
                             ELSE vision_tower]_vars
  /\ [][(call'.op = "load_model" /\ is_loaded) =>
          /\ Returned(call'.ret)
          /\ is_loaded'
          /\ vision_tower' = vision_tower]_vars

C6_Witness ==
  /\ call.op = "train"
  /\ call.arg = TRUE
  /\ training
  /\ is_loaded
  /\ ~vision_tower.training

\* C7: in every mode of the enumeration dummy_feature is zero-filled and as
\* wide as hidden_size.
C7_DummyFeatureHasHiddenSize ==
  (call.op = "dummy_feature" /\ Returned(call.ret)
     /\ select_feature \in Enumeration) =>
    /\ call.ret.value.fill = 0
    /\ call.ret.value.shape[2] = hidden_size(select_feature)

\* C8: hidden_size is 1408 for patch and cls_patch, 5632 for the slicefour
\* modes and 7040 for the slice_m25811_f6 modes: no mode of the enumeration
\* gets both multipliers.
C8_HiddenSizeValues ==
  (call.op = "hidden_size" /\ select_feature \in Enumeration) =>
    /\ Returned(call.ret)
    /\ select_feature \in SingleModes => call.ret.value = 1408
    /\ select_feature \in SliceFourModes => call.ret.value = 5632
    /\ select_feature \in M25811Modes => call.ret.value = 7040

C8_Witness ==
  /\ call.op = "hidden_size"
  /\ select_feature = "slice_m25811_f6_cls_patch"
  /\ call.ret.value = 7040

\* C9: the stored select_layer is the configured mm_vision_select_layer plus
\* one when that is below -1 and the configured value otherwise, and the
\* stored select_feature is the configured one (patch by default), after the
\* constructor and after every later call.
C9_SelectLayerAdjustedOnce ==
  /\ select_layer = IF args.mm_vision_select_layer < -1
                    THEN args.mm_vision_select_layer + 1
                    ELSE args.mm_vision_select_layer
  /\ select_feature = IF "mm_vision_select_feature" \in DOMAIN args
                      THEN args.mm_vision_select_feature
                      ELSE "patch"

C9_Witness ==
  /\ args.mm_vision_select_layer = -2
  /\ select_layer = -1
  /\ call.op = "forward"
  /\ call.calls = 1
  /\ Returned(call.ret)

\* C10: every stack forward hands to feature_select has length 1; so a
\* forward that reaches feature_select returns exactly when the mode is patch
\* or cls_patch and select_layer is 0 or -1, and ends in an exception in the
\* slicefour and slice_m25811_f6 modes.
C10_ForwardStackHasLengthOne ==
  (call.op = "forward" /\ call.calls >= 1) =>
    /\ call.stack_lens = {1}
    /\ Returned(call.ret) <=>
         (select_feature \in SingleModes /\ select_layer \in {0, -1})
    /\ select_feature \in SliceFourModes \cup M25811Modes =>
         call.ret.exc \in {"ValueError", "IndexError"}

C10_Witness ==
  /\ call.op = "forward"
  /\ call.calls = 1
  /\ call.stack_lens = {1}
  /\ select_feature = "slicefour_patch"
  /\ select_layer = -1
  /\ call.ret.exc = "ValueError"
  /\ call.ret.line = 73

====
